---- MODULE Spec2Model ----
(***************************************************************************)
(* A model of modules/review.py: the DomainReview class, its source        *)
(* lookups (VirusTotal, Cymon, X-Force, Talos, Bluecoat, Fortiguard,       *)
(* OpenDNS, TrendMicro, MXToolbox, Websense), the malware-domain feed and  *)
(* the pass of check_domain_status over the domain queryset.               *)
(*                                                                         *)
(* Text the code inspects character by character (category strings,        *)
(* domain names, the feed, passive-DNS fields) is a sequence of            *)
(* one-character strings.  Text the code only stores and compares as a     *)
(* whole (health_status values, explanation sentences, exception names)    *)
(* is a TLA+ string.                                                       *)
(***************************************************************************)
EXTENDS Bags, FiniteSets, Integers, Sequences, TLC

\* ------------------------------------------------------------------------
\* Bounds of the model
\* ------------------------------------------------------------------------
\* the number of records of the inventory
NumDomains == 2

\* ------------------------------------------------------------------------
\* Python string operations used by the code
\* ------------------------------------------------------------------------
UpperToLower ==
    ("A" :> "a") @@ ("B" :> "b") @@ ("C" :> "c") @@ ("D" :> "d") @@ ("E" :> "e") @@ ("F" :> "f") @@ ("G" :> "g") @@ ("H" :> "h") @@ ("I" :> "i") @@ ("J" :> "j") @@ ("K" :> "k") @@ ("L" :> "l") @@ ("M" :> "m") @@ ("N" :> "n") @@ ("O" :> "o") @@ ("P" :> "p") @@ ("Q" :> "q") @@ ("R" :> "r") @@ ("S" :> "s") @@ ("T" :> "t") @@ ("U" :> "u") @@ ("V" :> "v") @@ ("W" :> "w") @@ ("X" :> "x") @@ ("Y" :> "y") @@ ("Z" :> "z")

LowerToUpper ==
    ("a" :> "A") @@ ("b" :> "B") @@ ("c" :> "C") @@ ("d" :> "D") @@ ("e" :> "E") @@ ("f" :> "F") @@ ("g" :> "G") @@ ("h" :> "H") @@ ("i" :> "I") @@ ("j" :> "J") @@ ("k" :> "K") @@ ("l" :> "L") @@ ("m" :> "M") @@ ("n" :> "N") @@ ("o" :> "O") @@ ("p" :> "P") @@ ("q" :> "Q") @@ ("r" :> "R") @@ ("s" :> "S") @@ ("t" :> "T") @@ ("u" :> "U") @@ ("v" :> "V") @@ ("w" :> "W") @@ ("x" :> "X") @@ ("y" :> "Y") @@ ("z" :> "Z")

\* str.lower() of one character
LowerChar(c) == IF c \in DOMAIN UpperToLower THEN UpperToLower[c] ELSE c

\* str.upper() of one character
UpperChar(c) == IF c \in DOMAIN LowerToUpper THEN LowerToUpper[c] ELSE c

\* str.lower()
Lower(s) == [k \in 1..Len(s) |-> LowerChar(s[k])]

\* str.capitalize(): first character upper-cased, the rest lower-cased
Capitalize(s) == [k \in 1..Len(s) |-> IF k = 1 THEN UpperChar(s[k]) ELSE LowerChar(s[k])]

\* sub occurs in text at position p
OccursAt(text, sub, p) ==
    /\ p + Len(sub) - 1 <= Len(text)
    /\ \A k \in 1..Len(sub) : text[p + k - 1] = sub[k]

\* the Python test  sub in text  on two strings
Contains(text, sub) == \E p \in 1..(Len(text) + 1) : OccursAt(text, sub, p)

\* str.isspace for the characters up to U+00FF: the whitespace str.strip removes
IsSpace(c) == c \in {" ", "\t", "\n", "\r", "\f", "", "", "", "", "",
                     "", " "}

RECURSIVE LStrip(_)
LStrip(s) == IF s # <<>> /\ IsSpace(Head(s)) THEN LStrip(Tail(s)) ELSE s

RECURSIVE RStrip(_)
RStrip(s) == IF s # <<>> /\ IsSpace(s[Len(s)]) THEN RStrip(SubSeq(s, 1, Len(s) - 1)) ELSE s

\* str.strip()
Strip(s) == RStrip(LStrip(s))

\* str.split(sep): the pieces between the occurrences of sep, left to right
RECURSIVE SplitFrom(_, _, _, _)
SplitFrom(text, sep, p, start) ==
    IF p + Len(sep) - 1 > Len(text)
    THEN << SubSeq(text, start, Len(text)) >>
    ELSE IF OccursAt(text, sep, p)
         THEN << SubSeq(text, start, p - 1) >> \o SplitFrom(text, sep, p + Len(sep), p + Len(sep))
         ELSE SplitFrom(text, sep, p + 1, start)

Split(text, sep) == SplitFrom(text, sep, 1, 1)

\* iterating a str yields its characters, each a str of length one:
\* what list.extend(str) appends and what ', '.join(str) joins
Chars(s) == [k \in 1..Len(s) |-> << s[k] >>]

\* the elements of a list
Range(f) == {f[k] : k \in DOMAIN f}

\* ------------------------------------------------------------------------
\* Literals of the source
\* ------------------------------------------------------------------------
S_phishing == <<"p","h","i","s","h","i","n","g">>
S_web_ads == <<"w","e","b"," ","a","d","s","/","a","n","a","l","y","t","i","c","s">>
S_suspicious == <<"s","u","s","p","i","c","i","o","u","s">>
S_shopping == <<"s","h","o","p","p","i","n","g">>
S_placeholders == <<"p","l","a","c","e","h","o","l","d","e","r","s">>
S_pornography == <<"p","o","r","n","o","g","r","a","p","h","y">>
S_spam == <<"s","p","a","m">>
S_gambling == <<"g","a","m","b","l","i","n","g">>
S_scam == <<"s","c","a","m","/","q","u","e","s","t","i","o","n","a","b","l","e","/","i","l","l","e","g","a","l">>
S_malnets == <<"m","a","l","i","c","i","o","u","s"," ","s","o","u","r","c","e","s","/","m","a","l","n","e","t","s">>

\* DomainReview.blacklisted
blacklisted == << S_phishing, S_web_ads, S_suspicious, S_shopping, S_placeholders,
                  S_pornography, S_spam, S_gambling, S_scam, S_malnets >>

S_Uncategorized == <<"U","n","c","a","t","e","g","o","r","i","z","e","d">>
S_Unknown == <<"U","n","k","n","o","w","n">>
S_NoTags == <<"N","o"," ","T","a","g","s">>
S_NoIssues == <<"N","o"," ","i","s","s","u","e","s"," ","f","o","u","n","d">>
S_GoogleIssues == <<"G","o","o","g","l","e"," ","S","a","f","e","B","r","o","w","s","i","n","g"," ","I","s","s","u","e","s"," ","F","o","u","n","d",".">>
S_PhishTankIssues == <<"P","h","i","s","h","T","a","n","k"," ","I","s","s","u","e","s"," ","F","o","u","n","d">>
S_Sep == <<","," ">>
S_Space == << " " >>

\* the explanation sentences appended by check_domain_status
E_Malware == "Flagged by malwaredomains.com"
E_Sample == "Tied to a VirusTotal detected malware sample"
E_Url == "Tied to a VirusTotal detected URL"
E_Category == "Tagged with a bad category"

\* request_delay when settings has no sleep_time
DefaultDelay == 20

\* ------------------------------------------------------------------------
\* Inputs: the inventory, the configuration and what the services answer
\* ------------------------------------------------------------------------
S_Spam == <<"S","p","a","m">>
S_Ads == <<"A","d","s">>
S_ads == <<"a","d","s">>
S_Malware == <<"M","a","l","w","a","r","e">>
S_Phishing == <<"P","h","i","s","h","i","n","g">>
S_PHISHING == <<"P","H","I","S","H","I","N","G">>
S_adsMalware == <<"a","d","s",","," ","M","a","l","w","a","r","e">>
S_pad_SPAM == <<" ","S","P","A","M"," ">>
S_ip1 == <<"1",".","2",".","3",".","4">>
S_ip2 == <<"5",".","6",".","7",".","8">>
S_ts1 == <<"2","0","2","0","-","0","1","-","0","1"," ","0","0",":","0","0",":","0","0">>
S_ts2 == <<"2","0","2","1","-","0","2","-","0","3"," ","0","4",":","0","5",":","0","6">>
S_name == <<"a",".","b">>

\* two texts of the feed: in the first the name is a line, in the second
\* it is only part of a line
S_feed_line == <<"a",".","b","\n","c",".","d","\n">>
S_feed_part == <<"x","a",".","b","\n","c",".","d","\n">>

\* Domain.name and Domain.health_status of the inventory records
DomainRecords == { [name |-> S_name, health_status |-> "Burned"],
                   [name |-> S_name, health_status |-> "Healthy"] }

\* the sequences of n elements of S
RECURSIVE SeqsOf(_, _)
SeqsOf(S, n) ==
    IF n = 0 THEN {<<>>}
    ELSE {Append(q, x) : q \in SeqsOf(S, n - 1), x \in S}

\* the inventory: NumDomains records
Querysets == SeqsOf(DomainRecords, NumDomains)

\* settings.DOMAINCHECK_CONFIG: a key is absent, or present with a value
Absent == [present |-> FALSE, value |-> 0]
Present(v) == [present |-> TRUE, value |-> v]
Config(sleep_time, key) == [sleep_time |-> sleep_time, virustotal_api_key |-> key]
Configs == { Config(Absent, Absent), Config(Present(5), Absent),
             Config(Absent, Present(1)), Config(Present(5), Present(0)) }

\* One exchange with a service: the request fails in transit (kind "error"),
\* or an answer comes back with a status; wellformed says whether the answer
\* has the structure the code parses (JSON, hidden fields, page elements).
Answer(kind, status, wellformed, data) ==
    [kind |-> kind, status |-> status, wellformed |-> wellformed, data |-> data]

FeedAnswers == { Answer("error", 0, FALSE, <<>>),
                 Answer("http", 503, TRUE, <<>>),
                 Answer("http", 200, TRUE, S_feed_line),
                 Answer("http", 200, TRUE, S_feed_part) }

\* a VirusTotal domain report: the keys present and their values; the two
\* detection lists are held by their lengths
VTReport(keys, cats, samples, urls, res) ==
    [keys |-> keys, categories |-> cats, detected_downloaded_samples |-> samples,
     detected_urls |-> urls, resolutions |-> res]
VTAllKeys == {"categories", "detected_downloaded_samples", "detected_urls", "resolutions"}
NoReport == VTReport({}, <<>>, 0, 0, <<>>)
VTAnswers == { Answer("error", 0, FALSE, NoReport),
               Answer("http", 204, FALSE, NoReport),
               Answer("http", 200, TRUE, NoReport),
               Answer("http", 200, TRUE, VTReport(VTAllKeys, <<>>, 0, 1, <<>>)),
               Answer("http", 200, TRUE,
                      VTReport(VTAllKeys, <<>>, 0, 0,
                               << [ip_address |-> S_ip1, last_resolved |-> S_ts1],
                                  [ip_address |-> S_ip2, last_resolved |-> S_ts2] >>)),
               Answer("http", 200, TRUE, VTReport(VTAllKeys, << S_spam >>, 1, 1, <<>>)) }

\* cymon.io: data is whether the page says 'IP Not Found'
CymonAnswers == { Answer("error", 0, FALSE, FALSE),
                  Answer("http", 500, TRUE, FALSE),
                  Answer("http", 200, TRUE, TRUE),
                  Answer("http", 200, TRUE, FALSE) }

\* the answer is the page of an address cymon.io has a record of
Known(r) == r.kind = "http" /\ r.status = 200 /\ ~r.data

\* X-Force: data is the keys of result.cats
XForceAnswers == { Answer("error", 0, FALSE, <<>>),
                   Answer("http", 200, FALSE, <<>>),
                   Answer("http", 200, TRUE, <<>>),
                   Answer("http", 200, TRUE, << S_Spam, S_Ads >>),
                   Answer("http", 404, TRUE, <<>>),
                   Answer("http", 500, TRUE, <<>>) }

\* Talos: data is category.description, empty when category is null
TalosAnswers == { Answer("error", 0, FALSE, <<>>),
                  Answer("http", 500, TRUE, <<>>),
                  Answer("http", 200, FALSE, <<>>),
                  Answer("http", 200, TRUE, <<>>),
                  Answer("http", 200, TRUE, << S_Phishing >>) }

\* Bluecoat through the browser: kind "nodriver" when the browser cannot be
\* started, "error" when the page cannot be loaded; wellformed when the
\* search field and the category element exist; data is the element's text
BluecoatAnswers == { Answer("nodriver", 0, FALSE, <<>>),
                     Answer("error", 0, FALSE, <<>>),
                     Answer("http", 200, FALSE, <<>>),
                     Answer("http", 200, TRUE, <<>>),
                     Answer("http", 200, TRUE, S_Spam) }

\* Fortiguard: data is what re.findall returns for the category pattern
FortiguardAnswers == { Answer("error", 0, FALSE, <<>>),
                       Answer("http", 500, TRUE, <<>>),
                       Answer("http", 200, TRUE, <<>>),
                       Answer("http", 200, TRUE, << S_PHISHING >>) }

\* OpenDNS: data is the text of the span of class normal, if there is one
OpenDNSAnswers == { Answer("error", 0, FALSE, <<>>),
                    Answer("http", 500, TRUE, <<>>),
                    Answer("http", 200, TRUE, <<>>),
                    Answer("http", 200, TRUE, << S_adsMalware >>) }

\* TrendMicro: cookie says whether the form page was served, with a
\* Set-Cookie header, before the workflow ended (kind "error" with cookie is
\* a later request that fails); the final URL holds 'captcha' or not; label
\* is the text of the result element, if there is one
TMPage(cookie, captcha, label) == [cookie |-> cookie, captcha |-> captcha, label |-> label]
TrendMicroAnswers == { Answer("error", 0, FALSE, TMPage(FALSE, FALSE, <<>>)),
                       Answer("error", 0, FALSE, TMPage(TRUE, FALSE, <<>>)),
                       Answer("http", 200, FALSE, TMPage(TRUE, TRUE, <<>>)),
                       Answer("http", 200, TRUE, TMPage(TRUE, FALSE, <<>>)),
                       Answer("http", 200, TRUE, TMPage(TRUE, FALSE, << S_pad_SPAM >>)) }

\* MXToolbox: wellformed when the form page has its three hidden fields;
\* cookie says whether the form page was served, with a Set-Cookie header,
\* before the workflow ended; the rest of data says which result blocks the
\* answer page contains
MXIssues(cookie, none, google, phishtank) ==
    [cookie |-> cookie, noIssues |-> none, google |-> google, phishtank |-> phishtank]
MXToolboxAnswers == { Answer("error", 0, FALSE, MXIssues(FALSE, FALSE, FALSE, FALSE)),
                      Answer("error", 0, FALSE, MXIssues(TRUE, FALSE, FALSE, FALSE)),
                      Answer("http", 200, FALSE, MXIssues(TRUE, FALSE, FALSE, FALSE)),
                      Answer("http", 200, TRUE, MXIssues(TRUE, TRUE, FALSE, FALSE)),
                      Answer("http", 200, TRUE, MXIssues(TRUE, FALSE, TRUE, TRUE)) }

\* Websense: dict.json is missing, is not JSON ("invalid"), is JSON that is
\* no object ("notobject": a list, null, a string, a number) or is a JSON
\* object ("json"); the quota page cannot be reached ("error"), is answered
\* with an error status ("status"), lacks the count ("nomatch"), shows a
\* count that is no number ("text"), or shows a number
WSAnswer(dictfile, quota, remaining) ==
    [dictfile |-> dictfile, quota |-> quota, remaining |-> remaining]
WebsenseAnswers == { WSAnswer("missing", "error", 0),
                     WSAnswer("invalid", "error", 0),
                     WSAnswer("notobject", "error", 0),
                     WSAnswer("json", "error", 0),
                     WSAnswer("json", "status", 0),
                     WSAnswer("json", "nomatch", 0),
                     WSAnswer("json", "text", 0),
                     WSAnswer("json", "number", 0),
                     WSAnswer("json", "number", 3) }

\* ------------------------------------------------------------------------
\* The source lookups, each computed from the answer of its service
\* ------------------------------------------------------------------------
\* how a call ends: it returns a value, or an exception leaves it
Ret(v) == [raised |-> FALSE, error |-> "", value |-> v]
Raise(e) == [raised |-> TRUE, error |-> e, value |-> <<>>]

\* requests.Response.ok
Ok(r) == r.status < 400

\* Python truth of a configured value: None and empty values are false
Truthy(v) == v.present /\ v.value # 0

None == [isNone |-> TRUE, data |-> NoReport]
Some(d) == [isNone |-> FALSE, data |-> d]

\* DomainReview.check_virustotal
check_virustotal(api_key, r) ==
    IF Truthy(api_key)
    THEN IF r.kind = "error" \/ ~r.wellformed THEN None ELSE Some(r.data)
    ELSE None

\* DomainReview.check_talos
check_talos(r) ==
    IF r.kind = "error" THEN Ret(<<>>)
    ELSE IF Ok(r)
         THEN IF ~r.wellformed THEN Ret(<<>>)
              ELSE IF r.data # <<>> THEN Ret(<< r.data[1] >>)
                   ELSE Ret(<< S_Uncategorized >>)
         ELSE Ret(<<>>)

\* variant: a 404 is treated like every other status that is not a success
check_ibm_xforce_NotFoundEmpty(r) ==
    IF r.kind = "error" THEN Raise("NameError")
    ELSE IF Ok(r)
         THEN IF ~r.wellformed THEN Raise("NameError")
              ELSE IF r.data = <<>> THEN Ret(<< S_Uncategorized >>)
                   ELSE Ret(r.data)
         ELSE Ret(<<>>)

\* DomainReview.check_ibm_xforce: the handler of its try block prints the
\* name error, which nothing binds, so every exception in the block ends in
\* a NameError that leaves the method
check_ibm_xforce(r) ==
    IF r.kind = "error" THEN Raise("NameError")
    ELSE IF Ok(r)
         THEN IF ~r.wellformed THEN Raise("NameError")
              ELSE IF r.data = <<>> THEN Ret(<< S_Uncategorized >>)
                   ELSE Ret(r.data)
         ELSE IF r.status = 404 THEN Ret(<< S_Unknown >>)
              ELSE Ret(<<>>)

\* DomainReview.check_fortiguard: cat[0] of an empty findall result is an
\* IndexError, caught by the method
check_fortiguard(r) ==
    IF r.kind = "error" THEN Ret(<<>>)
    ELSE IF Ok(r)
         THEN IF r.data = <<>> THEN Ret(<<>>) ELSE Ret(<< r.data[1] >>)
         ELSE Ret(<<>>)

\* DomainReview.check_bluecoat: no exception is caught; the value is the
\* text of the category element, a str.  opened and closed count the
\* browser sessions the call starts and closes.
check_bluecoat(r) ==
    IF r.kind = "nodriver"
    THEN [raised |-> TRUE, error |-> "WebDriverException", value |-> <<>>, opened |-> 0, closed |-> 0]
    ELSE IF r.kind = "error"
         THEN [raised |-> TRUE, error |-> "WebDriverException", value |-> <<>>, opened |-> 1, closed |-> 0]
         ELSE IF ~r.wellformed
              THEN [raised |-> TRUE, error |-> "NoSuchElementException", value |-> <<>>,
                    opened |-> 1, closed |-> 0]
              ELSE [raised |-> FALSE, error |-> "", value |-> r.data, opened |-> 1, closed |-> 1]

\* DomainReview.check_mxtoolbox
check_mxtoolbox(r) ==
    IF r.kind = "error" \/ ~r.wellformed THEN Ret(<<>>)
    ELSE IF r.data.noIssues THEN Ret(<< S_NoIssues >>)
         ELSE Ret((IF r.data.google THEN << S_GoogleIssues >> ELSE <<>>)
                  \o (IF r.data.phishtank THEN << S_PhishTankIssues >> ELSE <<>>))

\* DomainReview.check_cymon
check_cymon(r) ==
    IF r.kind = "error" THEN FALSE
    ELSE IF r.status = 200
         THEN IF r.data THEN FALSE ELSE TRUE
         ELSE FALSE

\* DomainReview.check_opendns: the status of the answer is not inspected
check_opendns(r) ==
    IF r.kind = "error" THEN Ret(<<>>)
    ELSE IF r.data # <<>> THEN Ret(Split(Strip(r.data[1]), S_Sep))
         ELSE Ret(<< S_NoTags >>)

\* DomainReview.check_trendmicro
check_trendmicro(r) ==
    IF r.kind = "error" THEN Ret(<<>>)
    ELSE IF r.data.captcha THEN Ret(<<>>)
         ELSE IF r.data.label # <<>> THEN Ret(Split(Strip(r.data.label[1]), S_Sep))
              ELSE Ret(<< S_Uncategorized >>)

\* DomainReview.check_websense.  It is called with the Domain record, not
\* its name.  Lines 321-322 are outside every try block.  When dict.json
\* holds no object, .get fails inside the try block of line 323, the handler
\* of lines 340-342 swallows that, and line 348 reads websense_report, which
\* nothing has bound.  When it holds an object, the lookup with the record
\* finds no report and Request(None) fails inside the same try block, so
\* categories stays empty and the submission part always runs; nothing
\* guards it.  With requests left, line 358 concatenates a str and the
\* record, a TypeError, so the submission itself is never reached.
check_websense(r) ==
    IF r.dictfile = "missing" THEN Raise("FileNotFoundError")
    ELSE IF r.dictfile = "invalid" THEN Raise("JSONDecodeError")
    ELSE IF r.dictfile = "notobject" THEN Raise("UnboundLocalError")
    ELSE IF r.quota = "error" THEN Raise("URLError")
    ELSE IF r.quota = "status" THEN Raise("HTTPError")
    ELSE IF r.quota = "nomatch" THEN Raise("IndexError")
    ELSE IF r.quota = "text" THEN Raise("ValueError")
    ELSE IF r.remaining > 0 THEN Raise("TypeError")
         ELSE Ret(<<>>)

\* the exchange with a source failed: the adapter took one of its failure
\* branches (an exception, or the branch of a status it rejects)
VirusTotalFailed(r) == r.kind = "error" \/ ~r.wellformed
CymonFailed(r) == r.kind = "error" \/ r.status # 200
XForceFailed(r) ==
    \/ r.kind = "error"
    \/ Ok(r) /\ ~r.wellformed
    \/ ~Ok(r) /\ r.status # 404
TalosFailed(r) == r.kind = "error" \/ ~Ok(r) \/ ~r.wellformed
BluecoatFailed(r) == r.kind # "http" \/ ~r.wellformed
FortiguardFailed(r) == r.kind = "error" \/ ~Ok(r) \/ r.data = <<>>
OpenDNSFailed(r) == r.kind = "error"
TrendMicroFailed(r) == r.kind = "error" \/ r.data.captcha
MXToolboxFailed(r) == r.kind = "error" \/ ~r.wellformed
\* an exception leaves check_websense (lines 321-322, 348) or, with an
\* object in dict.json, Request(None) raises and the handler of lines
\* 340-342 runs, whatever the quota page says
WebsenseFailed(r) == TRUE

\* what the service did, whatever the adapter makes of it: the request was
\* answered, with a status that is a success and the content the adapter
\* looks for
Successful(r) == r.kind = "http" /\ Ok(r) /\ r.wellformed

\* dict.json holds an object and the quota page shows a number
WebsenseSuccessful(r) == r.dictfile = "json" /\ r.quota = "number"

NoFeed == [isNone |-> TRUE, text |-> <<>>]
Feed(t) == [isNone |-> FALSE, text |-> t]

\* DomainReview.download_malware_domains: the request is not guarded
download_malware_domains(r) ==
    IF r.kind = "error" THEN Raise("ConnectionError")
    ELSE IF r.status = 200 THEN Ret(Feed(r.data))
         ELSE Ret(NoFeed)

\* ------------------------------------------------------------------------
\* Pieces of check_domain_status
\* ------------------------------------------------------------------------
\* variant: no domain is treated as already decided
KnownBurned_Never(health) == FALSE

\* lines 467-470: a Healthy domain is treated as already decided
KnownBurned(health) == IF health # "Healthy" THEN FALSE ELSE TRUE

\* lines 474-475: the feed is there and the name occurs in its text
InMalwareDomains(malware_domains, domain_name) ==
    /\ ~malware_domains.isNone
    /\ malware_domains.text # <<>>
    /\ Contains(malware_domains.text, domain_name)

\* variant: the timestamp keeps its time part
Resolution_KeepsTime(address) ==
    [address |-> address.ip_address, timestamp |-> address.last_resolved]

\* line 498: one passive-DNS entry
Resolution(address) ==
    [address |-> address.ip_address, timestamp |-> Split(address.last_resolved, S_Space)[1]]

\* line 503
BadAddress(address) == address.address \o << "/" >> \o address.timestamp

\* str.join
RECURSIVE Join(_, _)
Join(items, sep) ==
    IF items = <<>> THEN <<>>
    ELSE IF Len(items) = 1 THEN items[1]
         ELSE items[1] \o sep \o Join(Tail(items), sep)

\* lines 504-508
HealthDNS(burned_dns, bad_addresses) ==
    IF burned_dns THEN [flagged |-> TRUE, addresses |-> Join(bad_addresses, S_Sep)]
    ELSE [flagged |-> FALSE, addresses |-> <<>>]

\* variant: the category is compared as it was returned
IsBlacklisted_CaseSensitive(category) == category \in Range(blacklisted)

\* line 531
IsBlacklisted(category) == Lower(category) \in Range(blacklisted)

\* line 527: the distinct elements of the list
Unique(categories) == SetToBag(Range(categories))

\* lines 529-532: one entry per distinct category that is blacklisted
BadCategories(unique) ==
    LET matching == {c \in BagToSet(unique) : IsBlacklisted(c)}
    IN  [x \in {Capitalize(c) : c \in matching} |->
            Cardinality({c \in matching : Capitalize(c) = x})]

\* variant: the verdict is overwritten by the outcome of the category check
BurnedByCategories_Overwrites(was_burned, bad) == bad # EmptyBag

\* lines 533-534
BurnedByCategories(was_burned, bad) == IF bad # EmptyBag THEN TRUE ELSE was_burned

\* ------------------------------------------------------------------------
\* State
\* ------------------------------------------------------------------------
VARIABLES
    config,               \* settings.DOMAINCHECK_CONFIG
    domain_queryset,      \* self.domain_queryset
    request_delay,        \* self.request_delay
    virustotal_api_key,   \* self.virustotal_api_key
    pc,                   \* where the program is
    error,                \* the exception that ended it, if one did
    i,                    \* position of the for loop in the queryset
    a,                    \* position of the loop over ip_addresses
    malware_domains,
    burned, burned_explanations, burned_dns, domain_categories,
    vt_results, ip_addresses, bad_addresses, health_dns,
    xforce_results, talos_results, bluecoat_results, fortiguard_results,
    opendns_results, trendmicro_results, mxtoolbox_results, websense_results,
    bad_categories,
    lab_results,          \* the mapping being built, keyed by queryset position
    calls,                \* the requests and delays made so far, in order
    unsuccessful,         \* some source of the pass did not respond successfully
    answered,             \* some lookup for the current domain was answered properly
    browsers,             \* browser sessions opened and not closed
    vt_returned,          \* the categories of the VirusTotal report as it was returned
    cymon_known,          \* per address checked so far: cymon.io has a record of it
    session,              \* DomainReview.session: the form workflows whose cookies it holds
    captcha_file,         \* captcha.jpg exists in the working directory
    captcha_result        \* what solve_captcha returned

self_vars == << config, domain_queryset, request_delay, virustotal_api_key >>
verdict_vars == << burned, burned_explanations >>
address_vars == << ip_addresses, bad_addresses, health_dns, burned_dns, a >>
dns_vars == << vt_results, address_vars >>
captcha_vars == << captcha_file, captcha_result >>
result_vars == << xforce_results, talos_results, bluecoat_results, fortiguard_results,
                  opendns_results, trendmicro_results, mxtoolbox_results, websense_results >>
vars == << self_vars, pc, error, i, malware_domains, verdict_vars, dns_vars,
           domain_categories, result_vars, bad_categories, lab_results, calls, unsuccessful, answered,
           browsers, cymon_known, vt_returned, session,
           captcha_vars >>

NotCalled == [called |-> FALSE, failed |-> FALSE, text |-> <<>>]
NoError == [type |-> "", where |-> ""]
Healthy == [flagged |-> FALSE, addresses |-> <<>>]

Init ==
    /\ config \in Configs
    /\ domain_queryset \in Querysets
    /\ request_delay = 0
    /\ virustotal_api_key = Absent
    /\ pc = "new"
    /\ error = NoError
    /\ i = 0
    /\ a = 0
    /\ malware_domains = NoFeed
    /\ burned = FALSE
    /\ burned_explanations = <<>>
    /\ burned_dns = FALSE
    /\ domain_categories = <<>>
    /\ vt_results = None
    /\ ip_addresses = <<>>
    /\ bad_addresses = <<>>
    /\ health_dns = Healthy
    /\ xforce_results = <<>>
    /\ talos_results = <<>>
    /\ bluecoat_results = <<>>
    /\ fortiguard_results = <<>>
    /\ opendns_results = <<>>
    /\ trendmicro_results = <<>>
    /\ mxtoolbox_results = <<>>
    /\ websense_results = <<>>
    /\ bad_categories = EmptyBag
    /\ lab_results = <<>>
    /\ calls = <<>>
    /\ unsuccessful = FALSE
    /\ answered = FALSE
    /\ browsers = 0
    /\ cymon_known = <<>>
    /\ vt_returned = <<>>
    /\ session = {}
    /\ captcha_file = FALSE
    /\ captcha_result = NotCalled

\* line 62: one requests.Session is made when the class is defined and
\* every request of every adapter goes through it; a form page that is
\* served with a Set-Cookie header leaves its cookie in it, however the
\* workflow goes on
Cookies(jar, source, r) ==
    IF r.data.cookie THEN jar \cup {source} ELSE jar

\* line 482: when the report has the key, domain_categories is the very list
\* vt_results['categories'], so what is appended to the one is appended to
\* the other
Extended(vt, categories) ==
    IF ~vt.isNone /\ "categories" \in vt.data.keys
    THEN [vt EXCEPT !.data.categories = categories]
    ELSE vt

\* an exception leaves check_domain_status
Abort(type, where) ==
    /\ pc' = "raised"
    /\ error' = [type |-> type, where |-> where]

\* one request of source for the domain at position k
Call(k, source) == calls' = Append(calls, << k, source >>)

\* a lookup for the current domain has been made: the adapter failed, or
\* did not, on an answer that was a successful one, or was not
Note(failed, successful) ==
    /\ answered' = (answered \/ ~failed)
    /\ unsuccessful' = (unsuccessful \/ ~successful)

\* ------------------------------------------------------------------------
\* DomainReview.__init__
\* ------------------------------------------------------------------------
\* variant: a missing key is recorded and construction goes on
Construct_Continues ==
    /\ pc = "new"
    /\ request_delay' = IF config.sleep_time.present THEN config.sleep_time.value
                        ELSE DefaultDelay
    /\ virustotal_api_key' = config.virustotal_api_key
    /\ pc' = "ready"
    /\ UNCHANGED << config, domain_queryset, error, i, malware_domains, verdict_vars,
                    dns_vars, domain_categories, result_vars, bad_categories, lab_results,
                    calls, unsuccessful, answered, browsers,
                    cymon_known, vt_returned, session, captcha_vars >>

Construct ==
    /\ pc = "new"
    /\ request_delay' = IF config.sleep_time.present THEN config.sleep_time.value
                        ELSE DefaultDelay
    /\ IF config.virustotal_api_key.present
       THEN /\ virustotal_api_key' = config.virustotal_api_key
            /\ pc' = "ready"
            /\ error' = error
       ELSE /\ virustotal_api_key' = Absent
            /\ pc' = "exited"
            /\ error' = [type |-> "SystemExit", where |-> "__init__"]
    /\ UNCHANGED << config, domain_queryset, i, malware_domains, verdict_vars, dns_vars,
                    domain_categories, result_vars, bad_categories, lab_results, calls,
                    unsuccessful, answered, browsers,
                    cymon_known, vt_returned, session, captcha_vars >>

\* ------------------------------------------------------------------------
\* DomainReview.solve_captcha
\* ------------------------------------------------------------------------
\* the CAPTCHA image: wellformed is whether the image can be opened and
\* read by the OCR, data is the text the OCR gives
S_captcha == <<"a"," ","[","b","'">>
CaptchaAnswers == { Answer("error", 0, FALSE, <<>>),
                    Answer("http", 404, FALSE, <<>>),
                    Answer("http", 200, FALSE, <<>>),
                    Answer("http", 200, TRUE, S_captcha) }

\* str.replace of one character by a string
Replace(text, c, by) ==
    LET RECURSIVE From(_)
        From(k) == IF k > Len(text) THEN <<>>
                   ELSE (IF text[k] = c THEN by ELSE << text[k] >>) \o From(k + 1)
    IN  From(1)

\* line 225
CleanCaptcha(text) == Replace(Replace(Replace(text, " ", <<>>), "[", << "l" >>), "'", <<>>)

\* lines 208-234: failed is the return value False, file is whether
\* captcha.jpg exists when the method returns
solve_captcha(r) ==
    IF r.kind = "error" \/ r.status # 200
    THEN [failed |-> TRUE, text |-> <<>>, file |-> FALSE]
    ELSE IF ~r.wellformed
         THEN [failed |-> TRUE, text |-> <<>>, file |-> TRUE]
         ELSE [failed |-> FALSE, text |-> CleanCaptcha(r.data), file |-> FALSE]

\* line 215: session.get is called without timeout; when the host of the
\* image accepts the request and never answers, the call of solve_captcha
\* does not come back
CaptchaNeverAnswered ==
    /\ pc = "ready"
    /\ pc' = "captcha_blocked"
    /\ UNCHANGED << self_vars, error, i, malware_domains, verdict_vars, dns_vars,
                    domain_categories, result_vars, bad_categories, lab_results, calls,
                    unsuccessful, answered, browsers, cymon_known, vt_returned, session,
                    captcha_vars >>

\* a caller asks the constructed object to solve one CAPTCHA
SolveCaptcha ==
    /\ pc = "ready"
    /\ \E r \in CaptchaAnswers :
          LET res == solve_captcha(r) IN
          /\ captcha_file' = res.file
          /\ captcha_result' = [called |-> TRUE, failed |-> res.failed, text |-> res.text]
    /\ pc' = "solved"
    /\ UNCHANGED << self_vars, error, i, malware_domains, verdict_vars, dns_vars,
                    domain_categories, result_vars, bad_categories, lab_results, calls,
                    unsuccessful, answered, browsers, cymon_known, vt_returned, session >>

\* ------------------------------------------------------------------------
\* DomainReview.check_domain_status, step by step
\* ------------------------------------------------------------------------
\* lines 455-456
StartPass ==
    /\ pc = "ready"
    /\ \E r \in FeedAnswers :
          LET res == download_malware_domains(r) IN
          /\ Call(0, "malwaredomains")
          /\ unsuccessful' = (unsuccessful \/ ~Successful(r))
          /\ IF res.raised
             THEN /\ Abort(res.error, "download_malware_domains")
                  /\ UNCHANGED << malware_domains, lab_results, i >>
             ELSE /\ malware_domains' = res.value
                  /\ lab_results' = <<>>
                  /\ i' = 1
                  /\ pc' = "loop"
                  /\ error' = error
    /\ UNCHANGED << self_vars, verdict_vars, dns_vars, domain_categories, result_vars,
                    bad_categories, answered, browsers,
                    cymon_known, vt_returned, session, captcha_vars >>

\* lines 457-472: the next record of the queryset
NextDomain ==
    /\ pc = "loop"
    /\ i <= Len(domain_queryset)
    /\ burned_dns' = FALSE
    /\ domain_categories' = <<>>
    /\ burned' = KnownBurned(domain_queryset[i].health_status)
    /\ IF ~burned'
       THEN /\ burned_explanations' = <<>>
            /\ pc' = "malware"
            /\ i' = i
       ELSE /\ burned_explanations' = burned_explanations
            /\ pc' = "loop"
            /\ i' = i + 1
    /\ answered' = FALSE
    /\ UNCHANGED << self_vars, error, malware_domains, vt_results, ip_addresses,
                    bad_addresses, health_dns, a, result_vars, bad_categories,
                    lab_results, calls, unsuccessful, browsers,
                    cymon_known, vt_returned, session, captcha_vars >>

\* lines 473-478
CheckMalwareDomains ==
    /\ pc = "malware"
    /\ IF InMalwareDomains(malware_domains, domain_queryset[i].name)
       THEN /\ burned' = TRUE
            /\ burned_explanations' = Append(burned_explanations, E_Malware)
       ELSE UNCHANGED verdict_vars
    /\ pc' = "virustotal"
    /\ UNCHANGED << self_vars, error, i, malware_domains, dns_vars, domain_categories,
                    result_vars, bad_categories, lab_results, calls, unsuccessful, answered, browsers,
                    cymon_known, vt_returned, session, captcha_vars >>

\* variant: the URL test is an elif of the sample test
Detections_FirstOnly(report) ==
    IF "detected_downloaded_samples" \in report.keys /\ report.detected_downloaded_samples > 0
    THEN << E_Sample >>
    ELSE IF "detected_urls" \in report.keys /\ report.detected_urls > 0
         THEN << E_Url >> ELSE <<>>

\* lines 483-493, applied to a report
Detections(report) ==
    (IF "detected_downloaded_samples" \in report.keys /\ report.detected_downloaded_samples > 0
     THEN << E_Sample >> ELSE <<>>)
    \o (IF "detected_urls" \in report.keys /\ report.detected_urls > 0
        THEN << E_Url >> ELSE <<>>)

\* lines 495-498
Resolutions(report) ==
    IF "resolutions" \in report.keys
    THEN [k \in 1..Len(report.resolutions) |-> Resolution(report.resolutions[k])]
    ELSE <<>>

\* lines 480-499; the test  'categories' in vt_results  is a TypeError when
\* the lookup returned None
CheckVirusTotal ==
    /\ pc = "virustotal"
    /\ \E r \in VTAnswers :
          LET vt == check_virustotal(virustotal_api_key, r) IN
          /\ IF Truthy(virustotal_api_key)
             THEN Call(i, "virustotal") /\ Note(VirusTotalFailed(r), Successful(r))
             ELSE UNCHANGED << calls, unsuccessful, answered >>
          /\ vt_results' = vt
          /\ IF vt.isNone
             THEN /\ Abort("TypeError", "check_domain_status")
                  /\ UNCHANGED << verdict_vars, domain_categories, ip_addresses,
                                  bad_addresses, a, cymon_known, vt_returned >>
             ELSE /\ domain_categories' = IF "categories" \in vt.data.keys
                                          THEN vt.data.categories ELSE domain_categories
                  /\ burned' = (burned \/ Detections(vt.data) # <<>>)
                  /\ burned_explanations' = burned_explanations \o Detections(vt.data)
                  /\ ip_addresses' = Resolutions(vt.data)
                  /\ bad_addresses' = <<>>
                  /\ cymon_known' = <<>>
                  /\ vt_returned' = IF "categories" \in vt.data.keys
                                    THEN vt.data.categories ELSE <<>>
                  /\ a' = 1
                  /\ pc' = "cymon"
                  /\ error' = error
    /\ UNCHANGED << self_vars, i, malware_domains, health_dns, burned_dns, result_vars,
                    bad_categories, lab_results, browsers, session, captcha_vars >>

\* lines 500-503: one address of the passive-DNS list
CheckCymon ==
    /\ pc = "cymon"
    /\ a <= Len(ip_addresses)
    /\ \E r \in CymonAnswers :
          /\ Call(i, "cymon")
          /\ Note(CymonFailed(r), Successful(r))
          /\ cymon_known' = Append(cymon_known, Known(r))
          /\ IF check_cymon(r)
             THEN /\ burned_dns' = TRUE
                  /\ bad_addresses' = Append(bad_addresses, BadAddress(ip_addresses[a]))
             ELSE UNCHANGED << burned_dns, bad_addresses >>
    /\ a' = a + 1
    /\ UNCHANGED << self_vars, pc, error, i, malware_domains, verdict_vars, vt_results,
                    ip_addresses, health_dns, domain_categories, result_vars,
                    bad_categories, lab_results, browsers, vt_returned, session,
                    captcha_vars >>

\* lines 504-508
SetHealthDNS ==
    /\ pc = "cymon"
    /\ a > Len(ip_addresses)
    /\ health_dns' = HealthDNS(burned_dns, bad_addresses)
    /\ pc' = "xforce"
    /\ UNCHANGED << self_vars, error, i, malware_domains, verdict_vars, vt_results,
                    ip_addresses, bad_addresses, burned_dns, a, domain_categories,
                    result_vars, bad_categories, lab_results, calls, unsuccessful, answered, browsers,
                    cymon_known, vt_returned, session, captcha_vars >>

\* ------------------------------------------------------------------------
\* lines 509-525: the category sources, in the order of the code
\* ------------------------------------------------------------------------
\* lines 510-511
CheckXForce ==
    /\ pc = "xforce"
    /\ \E r \in XForceAnswers :
          LET res == check_ibm_xforce(r) IN
          /\ Call(i, "xforce")
          /\ Note(XForceFailed(r), Successful(r))
          /\ IF res.raised
             THEN /\ Abort(res.error, "check_ibm_xforce")
                  /\ UNCHANGED << xforce_results, domain_categories, vt_results >>
             ELSE /\ xforce_results' = res.value
                  /\ domain_categories' = domain_categories \o res.value
                  /\ vt_results' = Extended(vt_results, domain_categories')
                  /\ pc' = "talos"
                  /\ error' = error
    /\ UNCHANGED << self_vars, i, malware_domains, verdict_vars, address_vars,
                    talos_results, bluecoat_results, fortiguard_results, opendns_results,
                    trendmicro_results, mxtoolbox_results, websense_results,
                    bad_categories, lab_results, browsers,
                    cymon_known, vt_returned, session, captcha_vars >>

\* lines 512-513
CheckTalos ==
    /\ pc = "talos"
    /\ \E r \in TalosAnswers :
          LET res == check_talos(r) IN
          /\ Call(i, "talos")
          /\ Note(TalosFailed(r), Successful(r))
          /\ IF res.raised
             THEN /\ Abort(res.error, "check_talos")
                  /\ UNCHANGED << talos_results, domain_categories, vt_results >>
             ELSE /\ talos_results' = res.value
                  /\ domain_categories' = domain_categories \o res.value
                  /\ vt_results' = Extended(vt_results, domain_categories')
                  /\ pc' = "bluecoat"
                  /\ error' = error
    /\ UNCHANGED << self_vars, i, malware_domains, verdict_vars, address_vars,
                    xforce_results, bluecoat_results, fortiguard_results, opendns_results,
                    trendmicro_results, mxtoolbox_results, websense_results,
                    bad_categories, lab_results, browsers,
                    cymon_known, vt_returned, session, captcha_vars >>

\* lines 514-515: extend with a str appends its characters
CheckBluecoat ==
    /\ pc = "bluecoat"
    /\ \E r \in BluecoatAnswers :
          LET res == check_bluecoat(r) IN
          /\ IF r.kind = "nodriver" THEN calls' = calls ELSE Call(i, "bluecoat")
          /\ Note(BluecoatFailed(r), Successful(r))
          /\ browsers' = browsers + res.opened - res.closed
          /\ IF res.raised
             THEN /\ Abort(res.error, "check_bluecoat")
                  /\ UNCHANGED << bluecoat_results, domain_categories, vt_results >>
             ELSE /\ bluecoat_results' = res.value
                  /\ domain_categories' = domain_categories \o Chars(res.value)
                  /\ vt_results' = Extended(vt_results, domain_categories')
                  /\ pc' = "fortiguard"
                  /\ error' = error
    /\ UNCHANGED << self_vars, i, malware_domains, verdict_vars, address_vars,
                    xforce_results, talos_results, fortiguard_results, opendns_results,
                    trendmicro_results, mxtoolbox_results, websense_results,
                    bad_categories, lab_results, cymon_known, vt_returned, session, captcha_vars >>

\* lines 516-517
CheckFortiguard ==
    /\ pc = "fortiguard"
    /\ \E r \in FortiguardAnswers :
          LET res == check_fortiguard(r) IN
          /\ Call(i, "fortiguard")
          /\ Note(FortiguardFailed(r), Successful(r))
          /\ IF res.raised
             THEN /\ Abort(res.error, "check_fortiguard")
                  /\ UNCHANGED << fortiguard_results, domain_categories, vt_results >>
             ELSE /\ fortiguard_results' = res.value
                  /\ domain_categories' = domain_categories \o res.value
                  /\ vt_results' = Extended(vt_results, domain_categories')
                  /\ pc' = "opendns"
                  /\ error' = error
    /\ UNCHANGED << self_vars, i, malware_domains, verdict_vars, address_vars,
                    xforce_results, talos_results, bluecoat_results, opendns_results,
                    trendmicro_results, mxtoolbox_results, websense_results,
                    bad_categories, lab_results, browsers,
                    cymon_known, vt_returned, session, captcha_vars >>

\* lines 518-519
CheckOpenDNS ==
    /\ pc = "opendns"
    /\ \E r \in OpenDNSAnswers :
          LET res == check_opendns(r) IN
          /\ Call(i, "opendns")
          /\ Note(OpenDNSFailed(r), Successful(r))
          /\ IF res.raised
             THEN /\ Abort(res.error, "check_opendns")
                  /\ UNCHANGED << opendns_results, domain_categories, vt_results >>
             ELSE /\ opendns_results' = res.value
                  /\ domain_categories' = domain_categories \o res.value
                  /\ vt_results' = Extended(vt_results, domain_categories')
                  /\ pc' = "trendmicro"
                  /\ error' = error
    /\ UNCHANGED << self_vars, i, malware_domains, verdict_vars, address_vars,
                    xforce_results, talos_results, bluecoat_results, fortiguard_results,
                    trendmicro_results, mxtoolbox_results, websense_results,
                    bad_categories, lab_results, browsers,
                    cymon_known, vt_returned, session, captcha_vars >>

\* lines 520-521
CheckTrendMicro ==
    /\ pc = "trendmicro"
    /\ \E r \in TrendMicroAnswers :
          LET res == check_trendmicro(r) IN
          /\ Call(i, "trendmicro")
          /\ Note(TrendMicroFailed(r), Successful(r))
          /\ session' = Cookies(session, "trendmicro", r)
          /\ IF res.raised
             THEN /\ Abort(res.error, "check_trendmicro")
                  /\ UNCHANGED << trendmicro_results, domain_categories, vt_results >>
             ELSE /\ trendmicro_results' = res.value
                  /\ domain_categories' = domain_categories \o res.value
                  /\ vt_results' = Extended(vt_results, domain_categories')
                  /\ pc' = "mxtoolbox"
                  /\ error' = error
    /\ UNCHANGED << self_vars, i, malware_domains, verdict_vars, address_vars,
                    xforce_results, talos_results, bluecoat_results, fortiguard_results,
                    opendns_results, mxtoolbox_results, websense_results,
                    bad_categories, lab_results, browsers, cymon_known, vt_returned, captcha_vars >>

\* lines 522-523: the list is extended with itself, not with the MXToolbox results
CheckMXToolbox ==
    /\ pc = "mxtoolbox"
    /\ \E r \in MXToolboxAnswers :
          LET res == check_mxtoolbox(r) IN
          /\ Call(i, "mxtoolbox")
          /\ Note(MXToolboxFailed(r), Successful(r))
          /\ session' = Cookies(session, "mxtoolbox", r)
          /\ IF res.raised
             THEN /\ Abort(res.error, "check_mxtoolbox")
                  /\ UNCHANGED << mxtoolbox_results, domain_categories, vt_results >>
             ELSE /\ mxtoolbox_results' = res.value
                  /\ domain_categories' = domain_categories \o domain_categories
                  /\ vt_results' = Extended(vt_results, domain_categories')
                  /\ pc' = "websense"
                  /\ error' = error
    /\ UNCHANGED << self_vars, i, malware_domains, verdict_vars, address_vars,
                    xforce_results, talos_results, bluecoat_results, fortiguard_results,
                    opendns_results, trendmicro_results, websense_results,
                    bad_categories, lab_results, browsers, cymon_known, vt_returned, captcha_vars >>

\* lines 524-525
CheckWebsense ==
    /\ pc = "websense"
    /\ \E r \in WebsenseAnswers :
          LET res == check_websense(r) IN
          /\ IF r.dictfile = "json" THEN Call(i, "websense") ELSE calls' = calls
          /\ Note(WebsenseFailed(r), WebsenseSuccessful(r))
          /\ IF res.raised
             THEN /\ Abort(res.error, "check_websense")
                  /\ UNCHANGED << websense_results, domain_categories, vt_results >>
             ELSE /\ websense_results' = res.value
                  /\ domain_categories' = domain_categories \o res.value
                  /\ vt_results' = Extended(vt_results, domain_categories')
                  /\ pc' = "categories"
                  /\ error' = error
    /\ UNCHANGED << self_vars, i, malware_domains, verdict_vars, address_vars,
                    xforce_results, talos_results, bluecoat_results, fortiguard_results,
                    opendns_results, trendmicro_results, mxtoolbox_results,
                    bad_categories, lab_results, browsers,
                    cymon_known, vt_returned, session, captcha_vars >>

\* variant: the explanation is appended inside the loop, once per bad category
CheckCategories_ExplainsEach ==
    /\ pc = "categories"
    /\ domain_categories' = Unique(domain_categories)
    /\ bad_categories' = BadCategories(domain_categories')
    /\ burned' = BurnedByCategories(burned, bad_categories')
    /\ burned_explanations' = burned_explanations
                              \o [n \in 1..BagCardinality(bad_categories') |-> E_Category]
    /\ pc' = "assemble"
    /\ UNCHANGED << self_vars, error, i, malware_domains, dns_vars, result_vars,
                    lab_results, calls, unsuccessful, answered, browsers,
                    cymon_known, vt_returned, session, captcha_vars >>

\* lines 526-535; from here on domain_categories is in the order of a set
CheckCategories ==
    /\ pc = "categories"
    /\ domain_categories' = Unique(domain_categories)
    /\ bad_categories' = BadCategories(domain_categories')
    /\ burned' = BurnedByCategories(burned, bad_categories')
    /\ burned_explanations' = IF bad_categories' # EmptyBag
                              THEN Append(burned_explanations, E_Category)
                              ELSE burned_explanations
    /\ pc' = "assemble"
    /\ UNCHANGED << self_vars, error, i, malware_domains, dns_vars, result_vars,
                    lab_results, calls, unsuccessful, answered, browsers,
                    cymon_known, vt_returned, session, captcha_vars >>

\* lines 537-551: the entry of one domain.  burned_explanation holds the
\* sentences that are joined; the fields all and bad hold the elements that
\* are joined, whose order is the order of a set.
Report ==
    [burned |-> burned,
     burned_explanation |-> burned_explanations,
     health_dns |-> health_dns,
     categories |->
        [all |-> bad_categories,
         bad |-> domain_categories,
         talos |-> Join(talos_results, S_Sep),
         xforce |-> Join(xforce_results, S_Sep),
         opendns |-> Join(opendns_results, S_Sep),
         bluecoat |-> Join(Chars(bluecoat_results), S_Sep),
         mxtoolbox |-> Join(mxtoolbox_results, S_Sep),
         fortiguard |-> Join(fortiguard_results, S_Sep),
         trendmicro |-> Join(trendmicro_results, S_Sep),
         websense |-> Join(websense_results, S_Sep)]]

\* variant: the verdict is written back to the inventory record
Assemble_WritesBack ==
    /\ pc = "assemble"
    /\ lab_results' = (i :> Report) @@ lab_results
    /\ domain_queryset' = [domain_queryset EXCEPT
                              ![i].health_status = IF burned THEN "Burned" ELSE "Healthy"]
    /\ pc' = "sleep"
    /\ UNCHANGED << config, request_delay, virustotal_api_key, error, i, malware_domains,
                    verdict_vars, dns_vars, domain_categories, result_vars, bad_categories,
                    calls, unsuccessful, answered, browsers, cymon_known, vt_returned, session, captcha_vars >>

Assemble ==
    /\ pc = "assemble"
    /\ lab_results' = (i :> Report) @@ lab_results
    /\ pc' = "sleep"
    /\ UNCHANGED << self_vars, error, i, malware_domains, verdict_vars, dns_vars,
                    domain_categories, result_vars, bad_categories, calls, unsuccessful, answered,
                    browsers,
                    cymon_known, vt_returned, session, captcha_vars >>

\* line 553: the module imports time and never binds the name sleep, so the
\* call is a NameError
Sleep ==
    /\ pc = "sleep"
    /\ Abort("NameError", "check_domain_status")
    /\ UNCHANGED << self_vars, i, malware_domains, verdict_vars, dns_vars,
                    domain_categories, result_vars, bad_categories, lab_results, calls,
                    unsuccessful, answered, browsers,
                    cymon_known, vt_returned, session, captcha_vars >>

\* line 554: the queryset is exhausted
Return ==
    /\ pc = "loop"
    /\ i > Len(domain_queryset)
    /\ pc' = "returned"
    /\ UNCHANGED << self_vars, error, i, malware_domains, verdict_vars, dns_vars,
                    domain_categories, result_vars, bad_categories, lab_results, calls,
                    unsuccessful, answered, browsers,
                    cymon_known, vt_returned, session, captcha_vars >>

\* the source whose request, made without a timeout argument (through
\* self.session, or through urllib.request.urlopen in check_websense), is
\* the next thing the pass does
Requesting ==
    [ready |-> "malwaredomains", virustotal |-> "virustotal", cymon |-> "cymon",
     xforce |-> "xforce", talos |-> "talos", fortiguard |-> "fortiguard",
     opendns |-> "opendns", trendmicro |-> "trendmicro", mxtoolbox |-> "mxtoolbox",
     websense |-> "websense"]

\* the adapters that make more than one request: a request after the form
\* page can be the one that is never answered
FormWorkflows == {"trendmicro", "mxtoolbox"}

\* the service accepts a request and never answers: session.get,
\* session.post and urlopen are called without timeout, so the call does
\* not come back.  In a form workflow the form page may have been served,
\* with its cookie, before that.  At Websense the request is the one for the
\* quota page, made when dict.json holds an object.
NeverAnswered ==
    /\ pc \in DOMAIN Requesting
    /\ pc = "virustotal" => Truthy(virustotal_api_key)
    /\ pc = "cymon" => a <= Len(ip_addresses)
    /\ Call(i, Requesting[pc])
    /\ \E cookie \in BOOLEAN :
          session' = IF cookie /\ pc \in FormWorkflows
                     THEN session \cup {Requesting[pc]} ELSE session
    /\ unsuccessful' = TRUE
    /\ pc' = "blocked"
    /\ UNCHANGED << self_vars, error, i, malware_domains, verdict_vars, dns_vars,
                    domain_categories, result_vars, bad_categories, lab_results,
                    answered, browsers, cymon_known, vt_returned, captcha_vars >>

Next ==
    \/ Construct
    \/ StartPass
    \/ NextDomain
    \/ CheckMalwareDomains
    \/ CheckVirusTotal
    \/ CheckCymon
    \/ SetHealthDNS
    \/ CheckXForce
    \/ CheckTalos
    \/ CheckBluecoat
    \/ CheckFortiguard
    \/ CheckOpenDNS
    \/ CheckTrendMicro
    \/ CheckMXToolbox
    \/ CheckWebsense
    \/ CheckCategories
    \/ Assemble
    \/ Sleep
    \/ Return
    \/ NeverAnswered
    \/ SolveCaptcha
    \/ CaptchaNeverAnswered

Spec == Init /\ [][Next]_vars

\* ------------------------------------------------------------------------
\* Properties
\* ------------------------------------------------------------------------
Positions == 1..Len(domain_queryset)

NonHealthy(k) == domain_queryset[k].health_status # "Healthy"

\* the pass is through with the record at position k
Done(k) == i > k \/ (i = k /\ pc \in {"raised", "returned"})

\* the entries of calls that belong to position k
CallsFor(k) == {n \in 1..Len(calls) : calls[n][1] = k}

\* the category check of the current domain has been made
AfterCategories ==
    \/ pc \in {"assemble", "sleep"}
    \/ pc = "raised" /\ error = [type |-> "NameError", where |-> "check_domain_status"]

\* the steps between the start of a domain's evaluation and its delay
Evaluating ==
    pc \in {"malware", "virustotal", "cymon", "xforce", "talos", "bluecoat", "fortiguard",
            "opendns", "trendmicro", "mxtoolbox", "websense", "categories", "assemble",
            "sleep"}

S_Newline == << "\n" >>

\* the name is one whole line of the feed
IsFeedLine(feed, name) == ~feed.isNone /\ name \in Range(Split(feed.text, S_Newline))

\* c equals the denylist entry e once c is lower-cased
MatchesEntry(c, e) ==
    /\ Len(c) = Len(e)
    /\ \A k \in 1..Len(c) : LowerChar(c[k]) = e[k]

\* C1: a domain whose health_status is Healthy gets no lookup, no pacing
\* delay and no entry in the mapping.
C1_HealthySkipped ==
    \A k \in Positions :
        ~NonHealthy(k) => (CallsFor(k) = {} /\ k \notin DOMAIN lab_results)

\* a Healthy record has been passed over and a later record has been looked up
C1_Witness ==
    \E k \in Positions :
        /\ ~NonHealthy(k)
        /\ i > k
        /\ pc = "sleep"
        /\ CallsFor(i) # {}

\* C2: a non-Healthy domain whose name is a line of the downloaded feed gets
\* a report with burned = true and the malware-list explanation, whatever
\* the other sources answer, also when they all fail.
C2_FeedAlwaysBurns ==
    \A k \in Positions :
        (NonHealthy(k) /\ Done(k) /\ IsFeedLine(malware_domains, domain_queryset[k].name))
        => /\ k \in DOMAIN lab_results
           /\ lab_results[k].burned
           /\ E_Malware \in Range(lab_results[k].burned_explanation)

\* C3: when every lookup for a non-Healthy domain fails, the domain still
\* gets an entry, with burned given by the feed alone and empty categories.
C3_AllFailedStillReported ==
    (i \in Positions /\ NonHealthy(i) /\ Done(i) /\ ~answered)
    => /\ i \in DOMAIN lab_results
       /\ lab_results[i].burned = IsFeedLine(malware_domains, domain_queryset[i].name)
       /\ lab_results[i].categories.all = EmptyBag
       /\ lab_results[i].categories.bad = EmptyBag

LookupOperations ==
    {"check_virustotal", "check_ibm_xforce", "check_talos", "check_bluecoat",
     "check_fortiguard", "check_opendns", "check_trendmicro", "check_mxtoolbox",
     "check_websense"}

\* C4: no source lookup lets an exception out: every fault becomes a
\* returned result, so the pass is never ended by a lookup.
C4_LookupsNeverRaise ==
    pc = "raised" => error.where \notin LookupOperations

\* C5: while one domain is evaluated, burned never goes from true to false
\* and the list of explanations only has entries appended.
C5_MonotonicBurn ==
    [][ (Evaluating /\ i' = i)
        => /\ burned => burned'
           /\ Len(burned_explanations) <= Len(burned_explanations')
           /\ SubSeq(burned_explanations', 1, Len(burned_explanations)) = burned_explanations
      ]_vars

\* every rule has fired for one domain
C5_Witness ==
    /\ pc = "sleep"
    /\ burned
    /\ burned_explanations = << E_Malware, E_Sample, E_Url, E_Category >>

\* C6: a pass in which every source answers properly returns, and the
\* mapping has exactly the non-Healthy positions as its keys.
C6_CleanPassReturns ==
    (pc \in {"raised", "returned"} /\ Truthy(virustotal_api_key) /\ ~unsuccessful)
    => /\ pc = "returned"
       /\ DOMAIN lab_results = {k \in Positions : NonHealthy(k)}

\* C7: every evaluated domain is followed by exactly one pacing delay, made
\* after its last lookup.
C7_OneDelayPerDomain ==
    \A k \in Positions :
        (Done(k) /\ k \in DOMAIN lab_results)
        => \E n \in CallsFor(k) :
              /\ calls[n][2] = "sleep"
              /\ \A o \in CallsFor(k) : o # n => (o < n /\ calls[o][2] # "sleep")

\* C8: without a VirusTotal key in the configuration, construction ends the
\* program and no request is ever made.
C8_NoKeyNoRequests ==
    ~config.virustotal_api_key.present
    => /\ pc \in {"new", "exited"}
       /\ calls = <<>>
       /\ lab_results = <<>>

\* construction has ended the program
C8_Witness ==
    /\ ~config.virustotal_api_key.present
    /\ pc = "exited"
    /\ error.type = "SystemExit"

\* the categories the sources returned for the current domain, each a whole
\* string
Returned ==
    Range(vt_returned) \cup Range(xforce_results) \cup Range(talos_results)
    \cup (IF bluecoat_results # <<>> THEN {bluecoat_results} ELSE {})
    \cup Range(fortiguard_results) \cup Range(opendns_results)
    \cup Range(trendmicro_results) \cup Range(mxtoolbox_results)
    \cup Range(websense_results)

\* C9: the aggregate is the union of what the sources returned, with
\* categories that differ only in letter case counted once.
C9_CaseFoldedUnion ==
    AfterCategories
    => /\ \A c, e \in BagToSet(domain_categories) : Lower(c) = Lower(e) => c = e
       /\ {Lower(c) : c \in BagToSet(domain_categories)} = {Lower(c) : c \in Returned}

\* C10: a category of the aggregate that equals a denylist entry once
\* lower-cased sets burned, with the explanation 'Tagged with a bad
\* category', in the verdict and in the entry assembled from it.
C10_CaseInsensitiveMatch ==
    (AfterCategories
     /\ \E c \in BagToSet(domain_categories) : \E n \in DOMAIN blacklisted :
           MatchesEntry(c, blacklisted[n]))
    => /\ burned
       /\ burned_explanations # <<>>
       /\ burned_explanations[Len(burned_explanations)] = E_Category
       /\ pc # "assemble" => /\ lab_results[i].burned
                             /\ E_Category \in Range(lab_results[i].burned_explanation)

\* the only signal is a category in upper case
C10_Witness ==
    /\ pc = "sleep"
    /\ S_PHISHING \in BagToSet(domain_categories)
    /\ BagToSet(bad_categories) = {S_Phishing}
    /\ lab_results[i].burned
    /\ lab_results[i].burned_explanation = << E_Category >>

\* the VirusTotal report of the current domain has been evaluated
AfterVirusTotal ==
    /\ ~vt_results.isNone
    /\ pc \in {"cymon", "xforce", "talos", "bluecoat", "fortiguard", "opendns",
               "trendmicro", "mxtoolbox", "websense", "categories", "assemble", "sleep",
               "raised"}

\* how many times x occurs in the list
Count(list, x) == Cardinality({n \in DOMAIN list : list[n] = x})

HasSamples == /\ "detected_downloaded_samples" \in vt_results.data.keys
              /\ vt_results.data.detected_downloaded_samples > 0

HasUrls == /\ "detected_urls" \in vt_results.data.keys
           /\ vt_results.data.detected_urls > 0

\* the name of the current domain occurs in the downloaded feed
NameInFeed == /\ ~malware_domains.isNone
              /\ Contains(malware_domains.text, domain_queryset[i].name)

\* some category of the aggregate equals a denylist entry once lower-cased
SomeBadCategory ==
    \E c \in BagToSet(domain_categories) : \E n \in DOMAIN blacklisted :
        MatchesEntry(c, blacklisted[n])

\* C11: once the VirusTotal report of a non-Healthy domain is evaluated,
\* each non-empty detection class (samples, URLs) has set burned and added
\* its explanation exactly once; a domain whose only signal is detected
\* URLs is reported burned with the URL explanation alone and a Healthy
\* dns_health.
C11_DetectionsBurn ==
    AfterVirusTotal
    => /\ Count(burned_explanations, E_Sample) = (IF HasSamples THEN 1 ELSE 0)
       /\ Count(burned_explanations, E_Url) = (IF HasUrls THEN 1 ELSE 0)
       /\ (HasSamples \/ HasUrls) => burned
       /\ (pc = "sleep" /\ HasUrls /\ ~HasSamples /\ ~NameInFeed /\ ~SomeBadCategory)
          => /\ lab_results[i].burned
             /\ lab_results[i].burned_explanation = << E_Url >>
             /\ lab_results[i].health_dns = Healthy

\* a domain whose only signal is a detected URL has been reported
C11_Witness ==
    /\ AfterVirusTotal
    /\ pc = "sleep"
    /\ HasUrls /\ ~HasSamples /\ ~NameInFeed /\ ~SomeBadCategory
    /\ lab_results[i].burned
    /\ lab_results[i].burned_explanation = << E_Url >>
    /\ lab_results[i].health_dns = Healthy

\* the passive-DNS addresses of the current domain have been checked
AfterDNS == AfterVirusTotal /\ pc # "cymon"

\* the text of a timestamp before its first space
DatePart(ts) ==
    LET p == CHOOSE p \in 1..(Len(ts) + 1) :
                /\ p = Len(ts) + 1 \/ ts[p] = " "
                /\ \A q \in 1..(p - 1) : ts[q] # " "
    IN  SubSeq(ts, 1, p - 1)

\* the address/date pairs of the resolutions from position k on that
\* cymon.io has a record of, in the order of the resolutions
RECURSIVE FlaggedFrom(_, _, _)
FlaggedFrom(resolutions, known, k) ==
    IF k > Len(resolutions) THEN <<>>
    ELSE (IF known[k]
          THEN << resolutions[k].ip_address \o << "/" >>
                  \o DatePart(resolutions[k].last_resolved) >>
          ELSE <<>>)
         \o FlaggedFrom(resolutions, known, k + 1)

S_both_flagged == <<"1",".","2",".","3",".","4","/","2","0","2","0","-","0","1","-","0","1",","," ","5",".","6",".","7",".","8","/","2","0","2","1","-","0","2","-","0","3">>

\* C12: dns_health is flagged exactly when cymon.io has a record of at
\* least one passive-DNS address of the domain, and then lists exactly
\* those addresses as address/date pairs (the date is last_resolved without
\* its time part) in the order of the resolutions; otherwise it is Healthy.
\* A flagged address alone never sets burned.
C12_DnsHealth ==
    AfterDNS
    => LET resolutions == IF "resolutions" \in vt_results.data.keys
                          THEN vt_results.data.resolutions ELSE <<>>
       IN  /\ Len(cymon_known) = Len(resolutions)
           /\ health_dns.flagged <=> (\E n \in DOMAIN cymon_known : cymon_known[n])
           /\ health_dns.addresses = Join(FlaggedFrom(resolutions, cymon_known, 1), S_Sep)
           /\ ~health_dns.flagged => health_dns = Healthy
           /\ (health_dns.flagged /\ burned)
              => \/ NameInFeed \/ HasSamples \/ HasUrls
                 \/ AfterCategories /\ SomeBadCategory
           /\ pc = "sleep" => lab_results[i].health_dns = health_dns

\* both addresses of a domain are flagged and the domain is reported as
\* not burned
C12_Witness ==
    /\ AfterDNS
    /\ pc = "sleep"
    /\ cymon_known = << TRUE, TRUE >>
    /\ lab_results[i].health_dns.flagged
    /\ lab_results[i].health_dns.addresses = S_both_flagged
    /\ ~lab_results[i].burned

\* C13: no lookup blocks forever: when a service never answers, the call
\* of the adapter still ends, so the pass is never left waiting inside a
\* request.
C13_NoLookupBlocks == pc # "blocked"

\* C14: session state acquired during the lookup of one adapter for one
\* domain is never visible to another lookup: the session a form workflow
\* starts on holds nothing that an earlier lookup left in it.
C14_SessionIsolated ==
    pc \in {"trendmicro", "mxtoolbox"} => session = {}

\* C15: every browser session check_bluecoat opens is closed when the
\* call ends, on every exit path: no session is left open.
C15_BrowserClosed == browsers = 0

\* C16: a call of solve_captcha returns (a fault of the download or of the
\* OCR is not raised), and once it has returned, on whatever path, the file
\* of the CAPTCHA image no longer exists.
C16_CaptchaFileRemoved ==
    captcha_result.called => (pc = "solved" /\ ~captcha_file)

\* the malware-list test of the current domain has been made
AfterMalware ==
    /\ i \in Positions
    /\ pc # "malware"
    /\ Evaluating \/ pc \in {"raised", "blocked"}

\* the positions of calls at which the feed was requested
FeedCalls == {n \in DOMAIN calls : calls[n][2] = "malwaredomains"}

\* C17: the feed is fetched exactly once per pass, before the first domain
\* is evaluated; a domain is flagged when its name is one whole line of the
\* feed and is not flagged when its name is not a line of it.
C17_FeedLineMatch ==
    /\ pc \notin {"new", "ready", "exited", "solved", "captcha_blocked"} => FeedCalls = {1}
    /\ AfterMalware
       => (E_Malware \in Range(burned_explanations)
           <=> IsFeedLine(malware_domains, domain_queryset[i].name))

\* C18: no step of a pass changes an inventory record: the name and the
\* health_status of every record of the queryset stay as they were.
C18_InventoryUnchanged == [][domain_queryset' = domain_queryset]_vars

\* a record has been evaluated to a verdict that differs from what the
\* record says, and the record still says it
C18_Witness ==
    /\ pc = "sleep"
    /\ ~lab_results[i].burned
    /\ domain_queryset[i].health_status = "Burned"

\* C19: every category string that a source returned is an element of the
\* aggregate, as a whole string, and is checked against the denylist: one
\* denylisted category from one source sets burned with the explanation
\* 'Tagged with a bad category'.
C19_EveryCategoryChecked ==
    AfterCategories
    => /\ Returned \subseteq BagToSet(domain_categories)
       /\ (\E c \in Returned : \E n \in DOMAIN blacklisted : MatchesEntry(c, blacklisted[n]))
          => (burned /\ E_Category \in Range(burned_explanations))

\* C20: the list of bad categories is the categories of the aggregate that
\* match the denylist, each capitalized and each listed once, also when
\* sources returned the same category in different letter case.
C20_BadListDeduplicated ==
    AfterCategories
    => /\ BagToSet(bad_categories)
          = {Capitalize(c) : c \in {d \in BagToSet(domain_categories) :
                                       \E n \in DOMAIN blacklisted :
                                           MatchesEntry(d, blacklisted[n])}}
       /\ \A x \in BagToSet(bad_categories) : CopiesIn(x, bad_categories) = 1

\* the two outcomes of X-Force that say nothing about the domain
NoNews == {<< S_Unknown >>, << S_Uncategorized >>}

\* C21: X-Force's 404 answer is recorded as 'Unknown' and its answer with
\* no category as 'Uncategorized': two distinct results, neither a failure,
\* each shown in the xforce field of the breakdown, and neither matches the
\* denylist or sets burned.
C21_UnknownVsUncategorized ==
    /\ pc = "xforce"
       => \A r \in XForceAnswers :
             /\ (r.kind = "http" /\ r.status = 404)
                => check_ibm_xforce(r) = Ret(<< S_Unknown >>)
             /\ (r.kind = "http" /\ r.status = 200 /\ r.wellformed /\ r.data = <<>>)
                => check_ibm_xforce(r) = Ret(<< S_Uncategorized >>)
    /\ (AfterCategories /\ xforce_results \in NoNews)
       => /\ xforce_results[1] \in BagToSet(domain_categories)
          /\ \A n \in DOMAIN blacklisted : ~MatchesEntry(xforce_results[1], blacklisted[n])
          /\ Capitalize(xforce_results[1]) \notin BagToSet(bad_categories)
          /\ burned => \/ NameInFeed \/ HasSamples \/ HasUrls
                       \/ \E c \in BagToSet(domain_categories) \ {xforce_results[1]} :
                             \E n \in DOMAIN blacklisted : MatchesEntry(c, blacklisted[n])
          /\ pc = "sleep" => lab_results[i].categories.xforce = xforce_results[1]

\* a domain X-Force does not know is reported, with 'Unknown' in the
\* breakdown and not burned
C21_Witness ==
    /\ pc = "sleep"
    /\ xforce_results = << S_Unknown >>
    /\ lab_results[i].categories.xforce = S_Unknown
    /\ ~lab_results[i].burned

\* a successful answer whose body lacks the category pattern
NoPattern(r) == r.kind = "http" /\ Ok(r) /\ r.data = <<>>

\* an answer with a status that is not a success
FailedStatus(r) == r.kind = "http" /\ ~Ok(r)

\* C22: for check_fortiguard and check_opendns a successful answer without
\* the category pattern and an answer with a non-success status give
\* results that can be told apart.
C22_UncategorizedVsFailed ==
    /\ pc = "fortiguard"
       => \A r1, r2 \in FortiguardAnswers :
             (NoPattern(r1) /\ FailedStatus(r2))
             => check_fortiguard(r1) # check_fortiguard(r2)
    /\ pc = "opendns"
       => \A r1, r2 \in OpenDNSAnswers :
             (NoPattern(r1) /\ FailedStatus(r2))
             => check_opendns(r1) # check_opendns(r2)

\* the sentences of the rules that fired for the current domain, in the
\* order of the rules: malware list, detected sample, detected URL, bad
\* category
FiredRules ==
    (IF NameInFeed THEN << E_Malware >> ELSE <<>>)
    \o (IF HasSamples THEN << E_Sample >> ELSE <<>>)
    \o (IF HasUrls THEN << E_Url >> ELSE <<>>)
    \o (IF SomeBadCategory THEN << E_Category >> ELSE <<>>)

\* C23: in every report burned is true exactly when the explanation list is
\* not empty, and the list is the sentences of the rules that fired (malware
\* list, detected sample, detected URL, bad category), in that order, each
\* once.
C23_BurnedIffExplained ==
    \A k \in DOMAIN lab_results :
        /\ k = i
        /\ lab_results[k].burned <=> lab_results[k].burned_explanation # <<>>
        /\ lab_results[k].burned_explanation = FiredRules

\* a report in which all four rules fired
C23_Witness ==
    /\ i \in DOMAIN lab_results
    /\ lab_results[i].burned
    /\ lab_results[i].burned_explanation = << E_Malware, E_Sample, E_Url, E_Category >>

\* C24: in every report the field 'bad' holds only categories that match
\* the denylist and the field 'all' holds the whole aggregate, so 'bad' is
\* part of 'all', and 'bad' is empty exactly when no bad-category
\* explanation was added.
C24_BadWithinAll ==
    \A k \in DOMAIN lab_results :
        LET fields == lab_results[k].categories IN
        /\ \A c \in BagToSet(fields.bad) :
              \E n \in DOMAIN blacklisted : MatchesEntry(c, blacklisted[n])
        /\ fields.all = domain_categories
        /\ BagToSet(fields.bad) \subseteq BagToSet(fields.all)
        /\ fields.bad = EmptyBag
           <=> E_Category \notin Range(lab_results[k].burned_explanation)

\* the download of the feed has been tried and gave no feed
FeedFailed == FeedCalls # {} /\ malware_domains.isNone

\* C25: when the feed cannot be fetched (a status that is not a success, or
\* a network error) the pass is not aborted: every non-Healthy domain is
\* still evaluated and reported, and the malware-list rule adds no burn
\* signal and no explanation.
C25_FeedFailureTolerated ==
    /\ ~(pc = "raised" /\ error.where = "download_malware_domains")
    /\ FeedFailed => E_Malware \notin Range(burned_explanations)
    /\ \A k \in Positions :
          (FeedFailed /\ NonHealthy(k) /\ Done(k))
          => /\ k \in DOMAIN lab_results
             /\ E_Malware \notin Range(lab_results[k].burned_explanation)

====
